---- MODULE Spec2Model ----
(***************************************************************************)
(* A model of analysis.py: the loader (load_rentals, _parse_bool), the     *)
(* analyzer (summarize_price, _median, average_price_by_bedrooms,          *)
(* top_listings), the reporter (format_report) and main.                   *)
(*                                                                         *)
(* Python floats are modelled as exact rationals <<n, d>> in lowest terms  *)
(* with d > 0 (statistics.mean computes with exact fractions; the final    *)
(* rounding to a double is not modelled).  Python strings that the code    *)
(* inspects character by character (CSV cells) are sequences of            *)
(* one-character strings; strings that the code only builds (report lines) *)
(* are TLA+ strings.                                                       *)
(***************************************************************************)
EXTENDS Integers, Sequences, FiniteSets, TLC

VARIABLES
    pc,        \* position of main / of the library call
    file,      \* the dataset: [exists, rows], rows as csv.DictReader yields them
    args,      \* the argparse namespace: [lang, top]
    idx,       \* number of rows the reader has yielded so far
    records,   \* the list `records` (load_rentals' local, then main's)
    summary,   \* format_report's local `summary`
    averages,  \* format_report's local `averages`
    top,       \* format_report's local `top`
    report,    \* the value format_report returned, as its list of lines
    stdout,    \* what print has written
    error,     \* the exception that ended the run, or NoError
    call,      \* library use: the function called and its arguments
    ret,       \* library use: the value returned
    values     \* library use: the list object handed to _median

vars == <<pc, file, args, idx, records, summary, averages, top, report,
          stdout, error, call, ret, values>>

-----------------------------------------------------------------------------
(* Bounds of the model.                                                     *)

MaxRows == 2
MaxRecords == 3
MaxNegLimit == 2

-----------------------------------------------------------------------------
(* Numbers.                                                                 *)

Abs(n) == IF n < 0 THEN 0 - n ELSE n

Min(a, b) == IF a <= b THEN a ELSE b

Max(a, b) == IF a >= b THEN a ELSE b

RECURSIVE Gcd(_, _)
Gcd(a, b) == IF b = 0 THEN a ELSE Gcd(b, a % b)

\* The float n/d (d # 0) in lowest terms.
Rat(n, d) ==
    LET s == IF d < 0 THEN 0 - 1 ELSE 1
        g == Gcd(Abs(n), Abs(d))
    IN <<(s * n) \div g, (s * d) \div g>>

Float(n) == <<n, 1>>

RAdd(a, b) == Rat(a[1] * b[2] + b[1] * a[2], a[2] * b[2])

RDivInt(a, n) == Rat(a[1], a[2] * n)

RLess(a, b) == a[1] * b[2] < b[1] * a[2]

RLeq(a, b) == a[1] * b[2] <= b[1] * a[2]

RECURSIVE RSum(_)
RSum(data) == IF data = <<>> THEN Float(0) ELSE RAdd(data[1], RSum(Tail(data)))

\* statistics.mean raises StatisticsError on an empty data set.
mean_raises(data) == Len(data) = 0

\* statistics.mean of a non-empty list of floats.
mean(data) == RDivInt(RSum(data), Len(data))

\* sorted(seq, key=..., reverse=...): a stable sort.  key[i] is the key of
\* seq[i]; an element goes before every element whose key is behind its own
\* in the order asked for, and after every earlier element it is not before.
\* reverse=True keeps the original order among equal keys.
sorted(seq, key, reverse) ==
    LET n == Len(seq)
        before(i, j) == IF reverse THEN RLess(key[j], key[i])
                                   ELSE RLess(key[i], key[j])
        pos(i) == 1 + Cardinality({j \in 1..n :
                          \/ before(j, i)
                          \/ (~before(i, j) /\ j < i)})
    IN [p \in 1..n |-> seq[CHOOSE i \in 1..n : pos(i) = p]]

\* seq[:limit]: a negative limit counts from the end.
SliceTo(seq, limit) ==
    LET n == Len(seq)
        stop == IF limit < 0 THEN Max(n + limit, 0) ELSE Min(limit, n)
    IN SubSeq(seq, 1, stop)

-----------------------------------------------------------------------------
(* The record and the analyzer.                                             *)

\* RentalRecord.price_per_square_foot: `self.price / self.size if self.size
\* else 0.0`.
price_per_square_foot(record) ==
    IF record.size # 0 THEN RDivInt(record.price, record.size) ELSE Float(0)

Prices(recs) == [i \in 1..Len(recs) |-> recs[i].price]

Sizes(recs) == [i \in 1..Len(recs) |-> Float(recs[i].size)]

PricePerSqft(recs) == [i \in 1..Len(recs) |-> price_per_square_foot(recs[i])]

\* Mutant of ordered_of: the values are taken in the order given.
ordered_of_unsorted(vals) == vals

\* The list `ordered` of _median: sorted(values), a new list.
ordered_of(vals) == sorted(vals, vals, FALSE)

_median(vals) ==
    IF vals = <<>> THEN Float(0)
    ELSE LET ordered == ordered_of(vals)
             length == Len(ordered)
             midpoint == length \div 2
         IN IF length % 2 # 0
            THEN ordered[midpoint + 1]
            ELSE mean(SubSeq(ordered, midpoint, midpoint + 1))

\* The list object `values` after _median(values) has run: sorted() copies.
values_after_median(vals) == vals

\* Mutant of summarize_price: total price divided by total size in place of
\* the mean of the per-record ratios.
summarize_price_ratio_of_sums(recs) ==
    [count |-> Len(Prices(recs)),
     average_price |-> mean(Prices(recs)),
     median_price |-> _median(Prices(recs)),
     average_size |-> mean(Sizes(recs)),
     average_price_per_sqft |->
        IF RSum(Sizes(recs))[1] = 0 THEN Float(0)
        ELSE Rat(RSum(Prices(recs))[1] * RSum(Sizes(recs))[2],
                 RSum(Prices(recs))[2] * RSum(Sizes(recs))[1])]

\* summarize_price raises what statistics.mean raises; the dict's entries are
\* evaluated in order, mean(prices) first.
summarize_price_raises(recs) ==
    \/ mean_raises(Prices(recs))
    \/ mean_raises(Sizes(recs))
    \/ mean_raises(PricePerSqft(recs))

summarize_price(recs) ==
    [count |-> Len(Prices(recs)),
     average_price |-> mean(Prices(recs)),
     median_price |-> _median(Prices(recs)),
     average_size |-> mean(Sizes(recs)),
     average_price_per_sqft |-> mean(PricePerSqft(recs))]

\* Mutant of setdefault_append: `grouped[key] = [price]`, the group started
\* again at every record.
setdefault_overwrite(grouped, key, price) ==
    IF \E i \in 1..Len(grouped) : grouped[i][1] = key
    THEN [i \in 1..Len(grouped) |->
            IF grouped[i][1] = key THEN <<key, <<price>>>> ELSE grouped[i]]
    ELSE Append(grouped, <<key, <<price>>>>)

\* grouped.setdefault(key, []).append(price) on a dict kept as its items in
\* insertion order.
setdefault_append(grouped, key, price) ==
    IF \E i \in 1..Len(grouped) : grouped[i][1] = key
    THEN [i \in 1..Len(grouped) |->
            IF grouped[i][1] = key
            THEN <<key, Append(grouped[i][2], price)>>
            ELSE grouped[i]]
    ELSE Append(grouped, <<key, <<price>>>>)

\* The dict `grouped` after the loop over the first n records.
RECURSIVE grouped_of(_, _)
grouped_of(recs, n) ==
    IF n = 0 THEN <<>>
    ELSE setdefault_append(grouped_of(recs, n - 1), recs[n].bedrooms, recs[n].price)

\* sorted(grouped.items()): tuples compare by their first component, and the
\* keys of a dict are distinct.
sorted_items(grouped) ==
    sorted(grouped, [i \in 1..Len(grouped) |-> grouped[i][1]], FALSE)

\* The returned dict, as its items in iteration order.
average_price_by_bedrooms(recs) ==
    LET items == sorted_items(grouped_of(recs, Len(recs)))
    IN [i \in 1..Len(items) |-> <<items[i][1], mean(items[i][2])>>]

Reverse(seq) == [i \in 1..Len(seq) |-> seq[Len(seq) + 1 - i]]

\* Mutant of top_listings: `sorted(records, key=...)[::-1][:limit]`, which
\* turns the order of equal prices around.
top_listings_reversed(recs, limit) ==
    SliceTo(Reverse(sorted(recs, Prices(recs), FALSE)), limit)

\* sorted(records, key=lambda record: record.price, reverse=True)[:limit]
top_listings(recs, limit) == SliceTo(sorted(recs, Prices(recs), TRUE), limit)

DefaultLimit == 5

-----------------------------------------------------------------------------
(* The reporter.  A template is the sequence of its pieces <<literal, field, *)
(* conversion>>: literal text followed by one replacement field (field ""    *)
(* for none).  The conversions ",.0f" and ".2f" are the format specs of the  *)
(* source; "d" and "r" stand for the empty format spec applied to an int and *)
(* to a float.  TLA+ strings are ASCII: each non-ASCII letter of the Turkish *)
(* table is written as one ASCII letter, so every length is kept.            *)

Pad2(n) == IF n < 10 THEN "0" \o ToString(n) ELSE ToString(n)

Pad3(n) == IF n < 100 THEN "0" \o Pad2(n) ELSE ToString(n)

\* Digits in groups of three, separated by commas (the "," option).
RECURSIVE Thousands(_)
Thousands(n) ==
    IF n < 1000 THEN ToString(n)
    ELSE Thousands(n \div 1000) \o "," \o Pad3(n % 1000)

\* The integer nearest to the float, ties to the even one.
RoundHalfEven(r) ==
    LET q == r[1] \div r[2]
        rem == r[1] % r[2]
    IN IF 2 * rem < r[2] THEN q
       ELSE IF 2 * rem > r[2] THEN q + 1
       ELSE IF q % 2 = 0 THEN q ELSE q + 1

Sign(k) == IF k < 0 THEN "-" ELSE ""

\* format(value, ",.0f")
format_comma_0f(value) ==
    LET k == RoundHalfEven(value) IN Sign(k) \o Thousands(Abs(k))

\* format(value, ".2f")
format_2f(value) ==
    LET c == RoundHalfEven(<<value[1] * 100, value[2]>>)
    IN Sign(c) \o ToString(Abs(c) \div 100) \o "." \o Pad2(Abs(c) % 100)

\* The decimal digits of n/d, 0 <= n < d, at most k of them.
RECURSIVE FracDigits(_, _, _)
FracDigits(n, d, k) ==
    IF n = 0 \/ k = 0 THEN ""
    ELSE ToString((n * 10) \div d) \o FracDigits((n * 10) % d, d, k - 1)

\* str(value) of a float.
float_str(value) ==
    LET whole == Abs(value[1]) \div value[2]
        frac == Abs(value[1]) % value[2]
    IN Sign(value[1]) \o ToString(whole) \o "."
       \o (IF frac = 0 THEN "0" ELSE FracDigits(frac, value[2], 17))

Convert(value, conv) ==
    CASE conv = "d" -> ToString(value)
      [] conv = "r" -> float_str(value)
      [] conv = ",.0f" -> format_comma_0f(value)
      [] conv = ".2f" -> format_2f(value)

\* template.format(**kw)
RECURSIVE format(_, _)
format(template, kw) ==
    IF template = <<>> THEN ""
    ELSE LET piece == template[1]
         IN piece[1]
            \o (IF piece[2] = "" THEN "" ELSE Convert(kw[piece[2]], piece[3]))
            \o format(Tail(template), kw)

\* "=" * n
RECURSIVE Repeat(_, _)
Repeat(str, n) == IF n <= 0 THEN "" ELSE str \o Repeat(str, n - 1)

strings ==
    [en |->
       [title |-> "Rental market summary",
        count |-> << <<"Listings analyzed: ", "count", "d">> >>,
        avg_price |-> << <<"Average monthly rent: $", "value", ",.0f">> >>,
        median_price |-> << <<"Median monthly rent: $", "value", ",.0f">> >>,
        avg_size |-> << <<"Average size: ", "value", ",.0f">>, <<" sqft", "", "">> >>,
        avg_psf |-> << <<"Average price per sqft: $", "value", ".2f">> >>,
        by_beds |-> "Average price by bedroom count:",
        by_beds_line |-> << <<"  ", "bedrooms", "r">>, <<" BR: $", "price", ",.0f">> >>,
        top_title |-> "Top listings by price:",
        top_line |-> << <<"  ID ", "id", "d">>, <<": $", "price", ",.0f">>,
                        <<" | ", "bedrooms", "r">>, <<" BR / ", "bathrooms", "r">>,
                        <<" BA | ", "size", "d">>, <<" sqft | $", "psf", ".2f">>,
                        <<"/sqft", "", "">> >>],
     tr |->
       [title |-> "Kira piyasasi ozeti",
        count |-> << <<"Incelenen ilan sayisi: ", "count", "d">> >>,
        avg_price |-> << <<"Ortalama aylik kira: $", "value", ",.0f">> >>,
        median_price |-> << <<"Medyan aylik kira: $", "value", ",.0f">> >>,
        avg_size |-> << <<"Ortalama buyukluk: ", "value", ",.0f">>, <<" ft2", "", "">> >>,
        avg_psf |-> << <<"Metrekare basina ortalama fiyat: $", "value", ".2f">> >>,
        by_beds |-> "Oda sayisina gore ortalama kira:",
        by_beds_line |-> << <<"  ", "bedrooms", "r">>, <<" oda: $", "price", ",.0f">> >>,
        top_title |-> "Fiyata gore en pahali ilanlar:",
        top_line |-> << <<"  ID ", "id", "d">>, <<": $", "price", ",.0f">>,
                        <<" | ", "bedrooms", "r">>, <<" oda / ", "bathrooms", "r">>,
                        <<" banyo | ", "size", "d">>, <<" ft2 | $", "psf", ".2f">>,
                        <<"/ft2", "", "">> >>]]

\* text = strings.get(language, strings["en"])
text_of(language) ==
    IF language \in DOMAIN strings THEN strings[language] ELSE strings["en"]

\* The first nine entries of `lines`.
head_lines(text, summ) ==
    << text.title,
       Repeat("=", Len(text.title)),
       format(text.count, [count |-> summ.count]),
       format(text.avg_price, [value |-> summ.average_price]),
       format(text.median_price, [value |-> summ.median_price]),
       format(text.avg_size, [value |-> summ.average_size]),
       format(text.avg_psf, [value |-> summ.average_price_per_sqft]),
       "",
       text.by_beds >>

\* One line per item of `averages`, in the dict's order.
bedroom_lines(text, avgs) ==
    [i \in 1..Len(avgs) |->
        format(text.by_beds_line, [bedrooms |-> avgs[i][1], price |-> avgs[i][2]])]

\* One line per record of `top`.
top_lines(text, tops) ==
    [i \in 1..Len(tops) |->
        format(text.top_line,
               [id |-> tops[i].id, price |-> tops[i].price,
                bedrooms |-> tops[i].bedrooms, bathrooms |-> tops[i].bathrooms,
                size |-> tops[i].size, psf |-> price_per_square_foot(tops[i])])]

\* Mutant of render: no blank line before the top-listings header.
render_without_blank(summ, avgs, tops, language) ==
    LET text == text_of(language)
    IN head_lines(text, summ) \o bedroom_lines(text, avgs)
       \o <<text.top_title>> \o top_lines(text, tops)

\* The lines joined by "\n".join(lines); no line holds a line break, so the
\* returned string and its list of lines determine each other.
render(summ, avgs, tops, language) ==
    LET text == text_of(language)
    IN head_lines(text, summ) \o bedroom_lines(text, avgs)
       \o <<"", text.top_title>> \o top_lines(text, tops)

format_report_raises(recs) == summarize_price_raises(recs)

format_report(recs, language, top_limit) ==
    render(summarize_price(recs), average_price_by_bedrooms(recs),
           top_listings(recs, top_limit), language)

-----------------------------------------------------------------------------
(* The loader.  A cell is the string csv.DictReader gives for a column, as  *)
(* its sequence of characters, or None when the row is shorter than the     *)
(* header (DictReader's restval).                                           *)

None == <<"None">>

Whitespace == {" ", "\t"}

Digits == {"0", "1", "2", "3", "4", "5", "6", "7", "8", "9"}

DigitValue(c) ==
    CASE c = "0" -> 0 [] c = "1" -> 1 [] c = "2" -> 2 [] c = "3" -> 3
      [] c = "4" -> 4 [] c = "5" -> 5 [] c = "6" -> 6 [] c = "7" -> 7
      [] c = "8" -> 8 [] c = "9" -> 9

RECURSIVE lstrip(_)
lstrip(str) ==
    IF str # <<>> /\ Head(str) \in Whitespace THEN lstrip(Tail(str)) ELSE str

RECURSIVE rstrip(_)
rstrip(str) ==
    IF str # <<>> /\ str[Len(str)] \in Whitespace
    THEN rstrip(SubSeq(str, 1, Len(str) - 1))
    ELSE str

\* str.strip()
strip(str) == rstrip(lstrip(str))

\* _parse_bool: value.strip() == "1"; None has no strip.
_parse_bool_raises(value) == value = None

_parse_bool(value) == strip(value) = <<"1">>

AllDigits(str) == str # <<>> /\ \A i \in 1..Len(str) : str[i] \in Digits

RECURSIVE DigitsValue(_)
DigitsValue(str) ==
    IF str = <<>> THEN 0
    ELSE 10 * DigitsValue(SubSeq(str, 1, Len(str) - 1)) + DigitValue(str[Len(str)])

RECURSIVE Pow10(_)
Pow10(k) == IF k = 0 THEN 1 ELSE 10 * Pow10(k - 1)

\* The text without its surrounding whitespace and its sign.
Unsigned(str) ==
    LET t == strip(str)
    IN IF t # <<>> /\ Head(t) \in {"+", "-"} THEN Tail(t) ELSE t

Negative(str) == LET t == strip(str) IN t # <<>> /\ Head(t) = "-"

\* int(str): an optional sign and decimal digits, whitespace around them
\* allowed; anything else is a ValueError, None a TypeError.
int_error(cell) ==
    IF cell = None THEN "TypeError"
    ELSE IF AllDigits(Unsigned(cell)) THEN "none" ELSE "ValueError"

int_of(cell) ==
    (IF Negative(cell) THEN 0 - 1 ELSE 1) * DigitsValue(Unsigned(cell))

\* Where the decimal point of the text is; 0 when it has none.
PointAt(str) ==
    IF \E i \in 1..Len(str) : str[i] = "."
    THEN CHOOSE i \in 1..Len(str) :
            str[i] = "." /\ \A j \in 1..(i - 1) : str[j] # "."
    ELSE 0

\* float(str): an optional sign, digits, at most one decimal point and at
\* least one digit (exponents, "inf" and "nan" are not in the cells drawn).
float_error(cell) ==
    IF cell = None THEN "TypeError"
    ELSE LET u == Unsigned(cell)
             k == PointAt(u)
             whole == IF k = 0 THEN u ELSE SubSeq(u, 1, k - 1)
             frac == IF k = 0 THEN <<>> ELSE SubSeq(u, k + 1, Len(u))
         IN IF /\ whole \o frac # <<>>
               /\ \A i \in 1..Len(whole) : whole[i] \in Digits
               /\ \A i \in 1..Len(frac) : frac[i] \in Digits
            THEN "none" ELSE "ValueError"

float_of(cell) ==
    LET u == Unsigned(cell)
        k == PointAt(u)
        whole == IF k = 0 THEN u ELSE SubSeq(u, 1, k - 1)
        frac == IF k = 0 THEN <<>> ELSE SubSeq(u, k + 1, Len(u))
    IN Rat((IF Negative(cell) THEN 0 - 1 ELSE 1)
              * (DigitsValue(whole) * Pow10(Len(frac)) + DigitsValue(frac)),
           Pow10(Len(frac)))

bool_error(cell) == IF _parse_bool_raises(cell) THEN "AttributeError" ELSE "none"

\* The keyword arguments of RentalRecord(...), in the order they are
\* evaluated: <<column, conversion>>.
Columns ==
    << <<"ID", "int">>, <<"price", "float">>, <<"countofbedrooms", "float">>,
       <<"countofbathrooms", "float">>, <<"size", "int">>,
       <<"minimumtosubway", "int">>, <<"buildingage", "int">>,
       <<"haswasher", "bool">>, <<"haselevator", "bool">>,
       <<"hasdishwasher", "bool">>, <<"hasgym", "bool">> >>

cell_error(row, col) ==
    CASE col[2] = "int" -> int_error(row[col[1]])
      [] col[2] = "float" -> float_error(row[col[1]])
      [] col[2] = "bool" -> bool_error(row[col[1]])

\* The exception building the record of a row raises: that of the first
\* argument whose conversion fails; "none" when every conversion succeeds.
row_error(row) ==
    IF \E i \in 1..Len(Columns) : cell_error(row, Columns[i]) # "none"
    THEN LET i == CHOOSE i \in 1..Len(Columns) :
                    /\ cell_error(row, Columns[i]) # "none"
                    /\ \A j \in 1..(i - 1) : cell_error(row, Columns[j]) = "none"
         IN cell_error(row, Columns[i])
    ELSE "none"

\* RentalRecord(id=int(row["ID"]), ...)
RentalRecord(row) ==
    [id |-> int_of(row["ID"]),
     price |-> float_of(row["price"]),
     bedrooms |-> float_of(row["countofbedrooms"]),
     bathrooms |-> float_of(row["countofbathrooms"]),
     size |-> int_of(row["size"]),
     minutes_to_subway |-> int_of(row["minimumtosubway"]),
     building_age |-> int_of(row["buildingage"]),
     has_washer |-> _parse_bool(row["haswasher"]),
     has_elevator |-> _parse_bool(row["haselevator"]),
     has_dishwasher |-> _parse_bool(row["hasdishwasher"]),
     has_gym |-> _parse_bool(row["hasgym"])]

-----------------------------------------------------------------------------
(* The inputs drawn.                                                        *)

SeqsUpTo(S, n) == UNION {[1..k -> S] : k \in 0..n}

\* The cells of the numeric columns that vary: price, countofbedrooms, size.
NumericCells ==
    { << <<"1">>, <<"1">>, <<"2">> >>,
      << <<"2", ".", "5">>, <<"1", ".", "5">>, <<" ", "2">> >>,
      << <<"3">>, <<"1">>, <<"0">> >>,
      << <<"x">>, <<"1">>, <<"2">> >>,
      << <<"3">>, <<"1", ".", "5">>, <<"1", ".", "5">> >>,
      << <<"3">>, <<>>, None >> }

\* The cells of haswasher, haselevator, hasdishwasher, hasgym.
FlagCells ==
    { << <<"1">>, <<"0">>, <<"0">>, <<"1">> >>,
      << <<" ", "1", " ">>, <<>>, <<"0">>, <<"x">> >>,
      << <<"0">>, <<"1">>, None, <<"0">> >>,
      << <<"1", "1">>, <<"1", " ">>, <<" ">>, <<"\t", "1">> >> }

Row(n, f) ==
    [ID |-> <<"0">>, price |-> n[1], countofbedrooms |-> n[2],
     countofbathrooms |-> <<"1">>, size |-> n[3],
     minimumtosubway |-> <<"5">>, buildingage |-> <<"1", "0">>,
     haswasher |-> f[1], haselevator |-> f[2],
     hasdishwasher |-> f[3], hasgym |-> f[4]]

RowSet == {Row(n, f) : n \in NumericCells, f \in FlagCells}

\* Files of at most MaxRows data rows; the i-th row has ID i.
Files ==
    {[exists |-> FALSE, rows |-> <<>>]} \cup
    {[exists |-> TRUE,
      rows |-> [i \in 1..Len(rs) |-> [rs[i] EXCEPT !.ID = <<ToString(i)>>]]] :
        rs \in SeqsUpTo(RowSet, MaxRows)}

\* --lang has choices=["en", "tr"]; --top is any int.
Namespaces == [lang : {"en", "tr"}, top : {0 - 1, 1, DefaultLimit}]

PriceValues == {Float(1), Float(2), <<5, 2>>}

\* <<bedrooms, size>>
Kinds == {<<Float(1), 2>>, <<<<3, 2>>, 0>>, <<Float(1), 4>>}

Record(p, b, z) ==
    [id |-> 0, price |-> p, bedrooms |-> b, bathrooms |-> Float(1), size |-> z,
     minutes_to_subway |-> 5, building_age |-> 10, has_washer |-> FALSE,
     has_elevator |-> FALSE, has_dishwasher |-> FALSE, has_gym |-> FALSE]

RecordSet == {Record(p, k[1], k[2]) : p \in PriceValues, k \in Kinds}

WithIds(rs) == [i \in 1..Len(rs) |-> [rs[i] EXCEPT !.id = i]]

\* Prices [1000, 2000, 1500] with sizes [500, 1000, 750].
ExampleRecords ==
    WithIds(<< Record(Float(1000), Float(1), 500),
               Record(Float(2000), Float(2), 1000),
               Record(Float(1500), Float(1), 750) >>)

\* Record lists of at most MaxRecords records; the i-th record has id i.
RecordLists ==
    {WithIds(rs) : rs \in SeqsUpTo(RecordSet, MaxRecords)} \cup {ExampleRecords}

Limits == ((0 - MaxNegLimit)..(MaxRecords + 1)) \cup {DefaultLimit}

Languages == {"en", "tr", "fr"}

NoError == "none"

NoCall == [fn |-> "", limit |-> 0, language |-> ""]

-----------------------------------------------------------------------------
(* main: parse_args, load_rentals, format_report, print.                    *)

Init ==
    /\ pc = "parse_args"
    /\ file \in Files
    /\ args = [lang |-> "", top |-> 0]
    /\ idx = 0
    /\ records = <<>>
    /\ summary = <<>>
    /\ averages = <<>>
    /\ top = <<>>
    /\ report = <<>>
    /\ stdout = <<>>
    /\ error = NoError
    /\ call = NoCall
    /\ ret = <<>>
    /\ values = <<>>

parse_args ==
    /\ pc = "parse_args"
    /\ \E ns \in Namespaces : args' = ns
    /\ pc' = "load_rentals"
    /\ UNCHANGED <<file, idx, records, summary, averages, top, report, stdout,
                   error, call, ret, values>>

\* load_rentals: `if not path.exists(): raise FileNotFoundError`.
load_missing ==
    /\ pc = "load_rentals"
    /\ ~file.exists
    /\ error' = "FileNotFoundError"
    /\ pc' = "failed"
    /\ UNCHANGED <<file, args, idx, records, summary, averages, top, report,
                   stdout, call, ret, values>>

\* load_rentals: records = [], the file opened.
load_open ==
    /\ pc = "load_rentals"
    /\ file.exists
    /\ records' = <<>>
    /\ idx' = 0
    /\ pc' = "reading"
    /\ UNCHANGED <<file, args, summary, averages, top, report, stdout, error,
                   call, ret, values>>

\* Mutant of read_row: the record is put in front of the list.
read_row_prepends ==
    /\ pc = "reading"
    /\ idx < Len(file.rows)
    /\ row_error(file.rows[idx + 1]) = "none"
    /\ records' = <<RentalRecord(file.rows[idx + 1])>> \o records
    /\ idx' = idx + 1
    /\ UNCHANGED <<pc, file, args, summary, averages, top, report, stdout,
                   error, call, ret, values>>

\* One iteration of `for row in reader`: records.append(RentalRecord(...)).
read_row ==
    /\ pc = "reading"
    /\ idx < Len(file.rows)
    /\ row_error(file.rows[idx + 1]) = "none"
    /\ records' = Append(records, RentalRecord(file.rows[idx + 1]))
    /\ idx' = idx + 1
    /\ UNCHANGED <<pc, file, args, summary, averages, top, report, stdout,
                   error, call, ret, values>>

\* Mutant of read_row_raises: the row that does not convert is skipped and
\* the loop goes on.
read_row_skips ==
    /\ pc = "reading"
    /\ idx < Len(file.rows)
    /\ row_error(file.rows[idx + 1]) # "none"
    /\ idx' = idx + 1
    /\ UNCHANGED <<pc, file, args, records, summary, averages, top, report,
                   stdout, error, call, ret, values>>

\* One iteration whose RentalRecord(...) raises: the exception leaves
\* load_rentals and main.
read_row_raises ==
    /\ pc = "reading"
    /\ idx < Len(file.rows)
    /\ row_error(file.rows[idx + 1]) # "none"
    /\ error' = row_error(file.rows[idx + 1])
    /\ idx' = idx + 1
    /\ pc' = "failed"
    /\ UNCHANGED <<file, args, records, summary, averages, top, report,
                   stdout, call, ret, values>>

\* The reader is exhausted: return records.
load_return ==
    /\ pc = "reading"
    /\ idx = Len(file.rows)
    /\ pc' = "summarize_price"
    /\ UNCHANGED <<file, args, idx, records, summary, averages, top, report,
                   stdout, error, call, ret, values>>

\* format_report: summary = summarize_price(records)
summarize ==
    /\ pc = "summarize_price"
    /\ ~summarize_price_raises(records)
    /\ summary' = summarize_price(records)
    /\ pc' = "average_price_by_bedrooms"
    /\ UNCHANGED <<file, args, idx, records, averages, top, report, stdout,
                   error, call, ret, values>>

summarize_raises ==
    /\ pc = "summarize_price"
    /\ summarize_price_raises(records)
    /\ error' = "StatisticsError"
    /\ pc' = "failed"
    /\ UNCHANGED <<file, args, idx, records, summary, averages, top, report,
                   stdout, call, ret, values>>

\* format_report: averages = average_price_by_bedrooms(records)
average ==
    /\ pc = "average_price_by_bedrooms"
    /\ averages' = average_price_by_bedrooms(records)
    /\ pc' = "top_listings"
    /\ UNCHANGED <<file, args, idx, records, summary, top, report, stdout,
                   error, call, ret, values>>

\* format_report: top = top_listings(records, limit=top_limit)
take_top ==
    /\ pc = "top_listings"
    /\ top' = top_listings(records, args.top)
    /\ pc' = "render"
    /\ UNCHANGED <<file, args, idx, records, summary, averages, report,
                   stdout, error, call, ret, values>>

\* format_report: the lines built and joined, the string returned.
render_report ==
    /\ pc = "render"
    /\ report' = render(summary, averages, top, args.lang)
    /\ pc' = "print"
    /\ UNCHANGED <<file, args, idx, records, summary, averages, top, stdout,
                   error, call, ret, values>>

\* main: print(format_report(...))
print_report ==
    /\ pc = "print"
    /\ stdout' = Append(stdout, report)
    /\ pc' = "done"
    /\ UNCHANGED <<file, args, idx, records, summary, averages, top, report,
                   error, call, ret, values>>

Next ==
    \/ parse_args
    \/ load_missing
    \/ load_open
    \/ read_row
    \/ read_row_raises
    \/ load_return
    \/ summarize
    \/ summarize_raises
    \/ average
    \/ take_top
    \/ render_report
    \/ print_report

Spec == Init /\ [][Next]_vars

-----------------------------------------------------------------------------
(* The functions called one at a time on a list of records.                 *)

LibInit ==
    /\ pc = "call"
    /\ records \in RecordLists
    /\ values = Prices(records)
    /\ file = [exists |-> FALSE, rows |-> <<>>]
    /\ args = [lang |-> "", top |-> 0]
    /\ idx = 0
    /\ summary = <<>>
    /\ averages = <<>>
    /\ top = <<>>
    /\ report = <<>>
    /\ stdout = <<>>
    /\ error = NoError
    /\ call = NoCall
    /\ ret = <<>>

Returned(fn, limit, language, value) ==
    /\ pc = "call"
    /\ pc' = "returned"
    /\ call' = [fn |-> fn, limit |-> limit, language |-> language]
    /\ ret' = value
    /\ UNCHANGED <<file, args, idx, records, summary, averages, top, report,
                   stdout, error>>

Raised(fn, limit, language, exception) ==
    /\ pc = "call"
    /\ pc' = "raised"
    /\ call' = [fn |-> fn, limit |-> limit, language |-> language]
    /\ error' = exception
    /\ UNCHANGED <<file, args, idx, records, summary, averages, top, report,
                   stdout, ret, values>>

call_median ==
    /\ Returned("_median", 0, "", _median(values))
    /\ values' = values_after_median(values)

call_top_listings ==
    /\ \E limit \in Limits :
          Returned("top_listings", limit, "", top_listings(records, limit))
    /\ UNCHANGED values

call_average_price_by_bedrooms ==
    /\ Returned("average_price_by_bedrooms", 0, "", average_price_by_bedrooms(records))
    /\ UNCHANGED values

call_summarize_price ==
    /\ ~summarize_price_raises(records)
    /\ Returned("summarize_price", 0, "", summarize_price(records))
    /\ UNCHANGED values

call_summarize_price_raises ==
    /\ summarize_price_raises(records)
    /\ Raised("summarize_price", 0, "", "StatisticsError")

call_format_report ==
    /\ ~format_report_raises(records)
    /\ \E language \in Languages, limit \in Limits :
          Returned("format_report", limit, language,
                   format_report(records, language, limit))
    /\ UNCHANGED values

call_format_report_raises ==
    /\ format_report_raises(records)
    /\ \E language \in Languages, limit \in Limits :
          Raised("format_report", limit, language, "StatisticsError")

LibNext ==
    \/ call_median
    \/ call_top_listings
    \/ call_average_price_by_bedrooms
    \/ call_summarize_price
    \/ call_summarize_price_raises
    \/ call_format_report
    \/ call_format_report_raises

LibSpec == LibInit /\ [][LibNext]_vars

-----------------------------------------------------------------------------
(* Vocabulary of the properties.                                            *)

Range(seq) == {seq[i] : i \in DOMAIN seq}

CountLess(vals, v) == Cardinality({i \in DOMAIN vals : RLess(vals[i], v)})

CountLeq(vals, v) == Cardinality({i \in DOMAIN vals : RLeq(vals[i], v)})

\* The value at place r (from 1) when vals is put in ascending order.
Kth(vals, r) ==
    CHOOSE v \in Range(vals) : CountLess(vals, v) < r /\ r <= CountLeq(vals, v)

\* The median of a non-empty list, from the places of its values.
MiddleOf(vals) ==
    LET n == Len(vals)
    IN IF n % 2 = 1 THEN Kth(vals, (n + 1) \div 2)
       ELSE RDivInt(RAdd(Kth(vals, n \div 2), Kth(vals, n \div 2 + 1)), 2)

Reorderings(n) == {f \in [1..n -> 1..n] : \A i, j \in 1..n : f[i] = f[j] => i = j}

\* The prices of the records whose bedroom count is exactly key, in input order.
PricesOfKey(recs, key) ==
    Prices(SelectSeq(recs, LAMBDA r : r.bedrooms = key))

BedroomKeys(recs) == {recs[i].bedrooms : i \in DOMAIN recs}

\* The r-th smallest bedroom count of the records.
KthKey(recs, r) ==
    CHOOSE key \in BedroomKeys(recs) :
        Cardinality({other \in BedroomKeys(recs) : RLess(other, key)}) = r - 1

Returns(fn) == pc = "returned" /\ call.fn = fn

\* The returned records are records of the input, each at most once, and no
\* record left out has a higher price than one returned.
LargestPrices(out, recs) ==
    /\ \A i \in DOMAIN out : out[i].id \in DOMAIN recs /\ recs[out[i].id] = out[i]
    /\ \A i, j \in DOMAIN out : out[i].id = out[j].id => i = j
    /\ \A i \in DOMAIN out : \A j \in DOMAIN recs :
          (\A m \in DOMAIN out : out[m].id # j) => RLeq(recs[j].price, out[i].price)

NonIncreasing(out) ==
    \A i, j \in DOMAIN out : i < j => RLeq(out[j].price, out[i].price)

\* Equal prices keep their input order (a record's id is its input position).
Stable(out) ==
    \A i, j \in DOMAIN out :
        (i < j /\ out[i].price = out[j].price) => out[i].id < out[j].id

-----------------------------------------------------------------------------
(* C1: top_listings.                                                        *)

\* C1 as stated: for every integer limit k, top_listings(records, limit=k)
\* returns exactly min(k, count) records, their prices are the largest of the
\* input, they are in non-increasing price order, and equal prices keep their
\* input order.
C1_AsStated ==
    Returns("top_listings") =>
        /\ Len(ret) = Min(call.limit, Len(records))
        /\ LargestPrices(ret, records)
        /\ NonIncreasing(ret)
        /\ Stable(ret)

\* C1 amended: for limit k >= 0 top_listings returns exactly min(k, count)
\* records, for k < 0 exactly max(count + k, 0); in both cases the records
\* returned are the highest-priced of the input, in non-increasing price
\* order, equal prices in input order.
C1_TopListings ==
    Returns("top_listings") =>
        /\ call.limit >= 0 => Len(ret) = Min(call.limit, Len(records))
        /\ call.limit < 0 => Len(ret) = Max(Len(records) + call.limit, 0)
        /\ LargestPrices(ret, records)
        /\ NonIncreasing(ret)
        /\ Stable(ret)

\* A call that cuts the list between records and returns two of equal price
\* that were not adjacent in the input.
C1_Witness ==
    /\ Returns("top_listings")
    /\ call.limit > 0
    /\ Len(ret) = call.limit
    /\ Len(ret) < Len(records)
    /\ \E i, j \in DOMAIN ret :
          i < j /\ ret[i].price = ret[j].price /\ ret[j].id > ret[i].id + 1

-----------------------------------------------------------------------------
(* C4: _median.                                                             *)

\* C4: _median returns 0 for an empty list, the middle value of the sorted
\* values for an odd length, the mean of the two central sorted values for an
\* even length; the result is the same for every reordering of the list, and
\* the list handed in is left as it was.
C4_Median ==
    Returns("_median") =>
        LET before == Prices(records)
            n == Len(before)
        IN /\ n = 0 => ret = Float(0)
           /\ n % 2 = 1 => ret = Kth(before, (n + 1) \div 2)
           /\ (n > 0 /\ n % 2 = 0) =>
                 ret = RDivInt(RAdd(Kth(before, n \div 2), Kth(before, n \div 2 + 1)), 2)
           /\ \A f \in Reorderings(n) : _median([i \in 1..n |-> before[f[i]]]) = ret
           /\ values = before

\* An unsorted list of even length whose two central values differ.
C4_Witness ==
    /\ Returns("_median")
    /\ Len(values) >= 2
    /\ Len(values) % 2 = 0
    /\ RLess(values[2], values[1])
    /\ ret \notin Range(values)

-----------------------------------------------------------------------------
(* C5: average_price_by_bedrooms.                                           *)

\* C5: the groups of average_price_by_bedrooms are keyed by the exact
\* bedroom counts of the records, one group per count that occurs (so no
\* group is empty and every record falls in exactly one group), each value is
\* the mean of the prices of exactly the records with that count, and the
\* groups come in strictly ascending key order.
C5_AveragePriceByBedrooms ==
    Returns("average_price_by_bedrooms") =>
        /\ {ret[i][1] : i \in DOMAIN ret} = BedroomKeys(records)
        /\ \A i \in DOMAIN records :
              Cardinality({g \in DOMAIN ret : ret[g][1] = records[i].bedrooms}) = 1
        /\ \A g \in DOMAIN ret :
              /\ PricesOfKey(records, ret[g][1]) # <<>>
              /\ ret[g][2] = RDivInt(RSum(PricesOfKey(records, ret[g][1])),
                                     Len(PricesOfKey(records, ret[g][1])))
        /\ \A g, h \in DOMAIN ret : g < h => RLess(ret[g][1], ret[h][1])

\* Two groups, first met in descending key order, one of them holding two
\* records of different prices.
C5_Witness ==
    /\ Returns("average_price_by_bedrooms")
    /\ Len(ret) >= 2
    /\ RLess(records[2].bedrooms, records[1].bedrooms)
    /\ \E i, j \in DOMAIN records :
          /\ i < j
          /\ records[i].bedrooms = records[j].bedrooms
          /\ records[i].price # records[j].price

-----------------------------------------------------------------------------
(* C6: summarize_price.                                                     *)

\* The per-record price per unit area as the claim words it.
RatioOf(record) ==
    IF record.size > 0 THEN Rat(record.price[1], record.price[2] * record.size)
    ELSE Float(0)

\* Total price divided by total size, what the summary is said not to hold.
RatioOfSums(recs) ==
    LET total == RSum(Sizes(recs))
    IN IF total[1] = 0 THEN Float(0)
       ELSE Rat(RSum(Prices(recs))[1] * total[2], RSum(Prices(recs))[2] * total[1])

\* C6: for a non-empty record list summarize_price returns count = the number
\* of records and average_price_per_sqft = the mean of the per-record values
\* price/size (0 for size 0); prices [1000, 2000, 1500] with sizes
\* [500, 1000, 750] give average_price 1500, median_price 1500 and
\* average_price_per_sqft 2.
C6_SummarizePrice ==
    (Returns("summarize_price") /\ Len(records) > 0) =>
        /\ ret.count = Len(records)
        /\ ret.average_price_per_sqft =
              RDivInt(RSum([i \in DOMAIN records |-> RatioOf(records[i])]), Len(records))
        /\ records = ExampleRecords =>
              /\ ret.average_price = Float(1500)
              /\ ret.median_price = Float(1500)
              /\ ret.average_price_per_sqft = Float(2)

\* A list with a record of size 0 and one of positive size, where the mean of
\* the ratios is not the ratio of the sums.
C6_Witness ==
    /\ Returns("summarize_price")
    /\ \E i \in DOMAIN records : records[i].size = 0
    /\ \E i \in DOMAIN records : records[i].size > 0
    /\ ret.average_price_per_sqft # RatioOfSums(records)

-----------------------------------------------------------------------------
(* C9: the fallback of format_report to the primary locale.                 *)

Supported == {"en", "tr"}

\* C9 as stated: for every record list and top limit, format_report called
\* with a language code other than the two supported ones raises no error and
\* returns exactly the string it returns for "en".
C9_AsStated ==
    (call.fn = "format_report" /\ call.language \notin Supported) =>
        /\ pc = "returned"
        /\ error = NoError
        /\ ret = format_report(records, "en", call.limit)

-----------------------------------------------------------------------------
(* C10: the lines of the report.                                            *)

\* The lines of the report that do not depend on the top limit: the nine
\* leading lines, one line per distinct bedroom count in ascending order, a
\* blank line and the top-listings header.
ReportBody(lines, recs, language) ==
    LET text == text_of(language)
        d == Cardinality(BedroomKeys(recs))
    IN /\ Len(lines) >= 11 + d
       /\ lines[1] = text.title
       /\ Len(lines[2]) = Len(lines[1])
       /\ lines[2] = Repeat("=", Len(lines[2]))
       /\ lines[3] = format(text.count, [count |-> Len(recs)])
       /\ lines[4] = format(text.avg_price, [value |-> mean(Prices(recs))])
       /\ lines[5] = format(text.median_price, [value |-> MiddleOf(Prices(recs))])
       /\ lines[6] = format(text.avg_size, [value |-> mean(Sizes(recs))])
       /\ lines[7] = format(text.avg_psf,
                            [value |-> mean([i \in DOMAIN recs |-> RatioOf(recs[i])])])
       /\ lines[8] = ""
       /\ lines[9] = text.by_beds
       /\ \A g \in 1..d :
             lines[9 + g] =
                format(text.by_beds_line,
                       [bedrooms |-> KthKey(recs, g),
                        price |-> mean(PricesOfKey(recs, KthKey(recs, g)))])
       /\ lines[10 + d] = ""
       /\ lines[11 + d] = text.top_title

\* One line per record of top_listings(records, top_limit), in its order,
\* after the top-listings header, and nothing after them.
ReportTop(lines, recs, language, limit) ==
    LET text == text_of(language)
        d == Cardinality(BedroomKeys(recs))
        tops == top_listings(recs, limit)
    IN /\ Len(lines) = 11 + d + Len(tops)
       /\ NonIncreasing(tops)
       /\ \A j \in DOMAIN tops :
             lines[11 + d + j] =
                format(text.top_line,
                       [id |-> tops[j].id, price |-> tops[j].price,
                        bedrooms |-> tops[j].bedrooms, bathrooms |-> tops[j].bathrooms,
                        size |-> tops[j].size, psf |-> RatioOf(tops[j])])

\* C10 as stated: for a non-empty record list the report is the nine leading
\* lines, one line per distinct bedroom count, a blank line, the top-listings
\* header and one line per record of top_listings(records, top_limit), and
\* its line count is 11 + (distinct bedroom counts) + min(top_limit, count).
C10_AsStated ==
    (Returns("format_report") /\ Len(records) > 0) =>
        /\ ReportBody(ret, records, call.language)
        /\ ReportTop(ret, records, call.language, call.limit)
        /\ Len(ret) = 11 + Cardinality(BedroomKeys(records))
                         + Min(call.limit, Len(records))

\* C10 amended: the same lines in the same order, and the line count is
\* 11 + (distinct bedroom counts) + min(top_limit, count) for top_limit >= 0
\* and 11 + (distinct bedroom counts) + max(count + top_limit, 0) for
\* top_limit < 0.
C10_ReportLines ==
    (Returns("format_report") /\ Len(records) > 0) =>
        /\ ReportBody(ret, records, call.language)
        /\ ReportTop(ret, records, call.language, call.limit)
        /\ call.limit >= 0 =>
              Len(ret) = 11 + Cardinality(BedroomKeys(records))
                            + Min(call.limit, Len(records))
        /\ call.limit < 0 =>
              Len(ret) = 11 + Cardinality(BedroomKeys(records))
                            + Max(Len(records) + call.limit, 0)

\* A report of several records with two bedroom counts whose top limit cuts
\* the list of records.
C10_Witness ==
    /\ Returns("format_report")
    /\ Len(records) >= 3
    /\ Cardinality(BedroomKeys(records)) = 2
    /\ call.limit = 2
    /\ Len(ret) = 15

-----------------------------------------------------------------------------
(* Vocabulary of the properties of main.                                    *)

NumericColumns == {c \in Range(Columns) : c[2] \in {"int", "float"}}

FlagColumns == {"haswasher", "haselevator", "hasdishwasher", "hasgym"}

\* Some numeric column of the row holds no number.
MalformedField(row) == \E c \in NumericColumns : cell_error(row, c) # "none"

\* Every row of the file converts.
WellFormed(f) == f.exists /\ \A i \in DOMAIN f.rows : row_error(f.rows[i]) = "none"

\* load_rentals has returned to main.
Loaded ==
    \/ pc \in {"summarize_price", "average_price_by_bedrooms", "top_listings",
               "render", "print", "done"}
    \/ (pc = "failed" /\ error = "StatisticsError")

\* The place of a position of main in the order load -> analyze -> format
\* -> print.
Rank(p) ==
    CASE p = "parse_args" -> 0
      [] p = "load_rentals" -> 1
      [] p = "reading" -> 2
      [] p = "summarize_price" -> 3
      [] p = "average_price_by_bedrooms" -> 4
      [] p = "top_listings" -> 5
      [] p = "render" -> 6
      [] p = "print" -> 7
      [] p = "done" -> 8
      [] p = "failed" -> 9

-----------------------------------------------------------------------------
(* C2: the reasons a run fails.                                             *)

\* C2 as stated: a run that fails does so because the path does not exist
\* (before any row is read) or because a numeric column of a row holds a
\* non-numeric value; a run whose file exists and whose rows all have
\* parseable numeric fields never fails.
C2_AsStated ==
    pc = "failed" =>
        \/ (~file.exists /\ idx = 0 /\ error = "FileNotFoundError")
        \/ (file.exists /\ idx > 0 /\ MalformedField(file.rows[idx]))

-----------------------------------------------------------------------------
(* C3: the report is all-or-nothing.                                        *)

\* What has been printed is the whole report of a run that loaded every row.
AllOrNothing ==
    /\ Len(stdout) <= 1
    /\ stdout # <<>> =>
          /\ pc = "done"
          /\ error = NoError
          /\ file.exists
          /\ idx = Len(file.rows)
          /\ Len(records) = Len(file.rows)
          /\ stdout = <<report>>
          /\ report = format_report(records, args.lang, args.top)
    /\ pc = "done" => Len(stdout) = 1
    /\ pc = "failed" => (stdout = <<>> /\ error # NoError)
    /\ error # NoError => pc = "failed"

\* The steps come in the order load -> analyze -> format -> print, each row
\* is read once, only the print step writes, and a failed run takes no
\* further step.
InOrder ==
    /\ pc' # pc => (pc' = "failed" \/ Rank(pc') = Rank(pc) + 1)
    /\ pc = "failed" => UNCHANGED vars
    /\ idx' \in {idx, idx + 1}
    /\ stdout' # stdout => (pc = "print" /\ pc' = "done" /\ stdout' = <<report>>)

\* C3: output is written only after load_rentals has parsed every row and
\* format_report has returned; a run that fails has printed nothing, retries
\* no step and stays failed; a successful run prints exactly one report,
\* after load, analysis and formatting, in that order.
C3_AllOrNothing == []AllOrNothing /\ [][InOrder]_vars

\* A run that failed at its second row, after the first was parsed.
C3_Witness ==
    /\ pc = "failed"
    /\ idx = 2
    /\ Len(records) = 1
    /\ stdout = <<>>

-----------------------------------------------------------------------------
(* C7: load_rentals keeps the rows and their order.                         *)

\* C7: for a well-formed file load_rentals returns, and returns as many
\* records as the file has data rows, the i-th record built from the i-th
\* row.
C7_LoadRentals ==
    /\ WellFormed(file) =>
          error \notin {"FileNotFoundError", "ValueError", "TypeError", "AttributeError"}
    /\ Loaded =>
          /\ WellFormed(file)
          /\ Len(records) = Len(file.rows)
          /\ \A i \in DOMAIN file.rows :
                /\ records[i].id = i
                /\ records[i].price = float_of(file.rows[i].price)
                /\ records[i].bedrooms = float_of(file.rows[i].countofbedrooms)
                /\ records[i].size = int_of(file.rows[i].size)
                /\ records[i] = RentalRecord(file.rows[i])

\* A loaded file of two rows that differ in more than their ID.
C7_Witness ==
    /\ Loaded
    /\ Len(file.rows) = 2
    /\ file.rows[1].price # file.rows[2].price
    /\ file.rows[1].haswasher # file.rows[2].haswasher

-----------------------------------------------------------------------------
(* C8: the amenity flags.                                                   *)

FlagOf(record, column) ==
    CASE column = "haswasher" -> record.has_washer
      [] column = "haselevator" -> record.has_elevator
      [] column = "hasdishwasher" -> record.has_dishwasher
      [] column = "hasgym" -> record.has_gym

\* C8 as stated: loading a row whose numeric columns parse never fails
\* whatever its flag columns hold, and each flag of the record is true
\* exactly when the column's value is the literal "1": blank, absent and "1"
\* surrounded by whitespace all give false.
C8_AsStated ==
    \A i \in 1..idx :
        ~MalformedField(file.rows[i]) =>
            /\ i <= Len(records)
            /\ \A column \in FlagColumns :
                  FlagOf(records[i], column) = (file.rows[i][column] = <<"1">>)

====
